---- MODULE Spec2Model ----
(***************************************************************************)
(* Branch-and-bound for the 0/1 knapsack problem (sheets/02_bnb/           *)
(* knapsack_bnb): the relaxation solvers of relaxation.py, the branching   *)
(* strategies of branching_strategy.py, and the search driver that ties    *)
(* them together.                                                          *)
(*                                                                         *)
(* Numbers.  Item values, weights and the capacity are non-negative        *)
(* integers.  A relaxed selection value is a real in [0,1]; it is          *)
(* represented by its numerator over Den, so 0 is 0.0 and Den is 1.0 and   *)
(* the numerators strictly between are the fractional values.              *)
(***************************************************************************)
EXTENDS Integers, Sequences, FiniteSets

VARIABLES
    instance,        \* Instance: [items: Seq([value, weight]), capacity]
    solver,          \* the configured RelaxationSolver class
    strategy,        \* the configured BranchingStrategy class
    decisions,       \* BranchingDecisions under study (pure-function specs)
    relaxed,         \* RelaxedSolution under study / attached to the node
    children,        \* result of make_branching_decisions
    pc,              \* position of the pure-function harness
    status,          \* search driver status
    frontier,        \* search driver: sequence of pending BnBNodes
    best_value,      \* incumbent value (NegInf: none recorded)
    best_selection,  \* incumbent selection (a 0/1 vector), or NoSelection
    budget,          \* remaining node budget of the search, or None
    order,           \* the configured frontier ordering policy
    leaves           \* tree enumeration: decision vectors that had no children

vars == <<instance, solver, strategy, decisions, relaxed, children, pc,
          status, frontier, best_value, best_selection, budget, order, leaves>>

(***************************************************************************)
(* Bounds of the model.                                                    *)
(***************************************************************************)
MaxItems == 2
MaxValue == 2
MaxWeight == 2
MaxCapacity == 2
Den == 2
MaxBudget == 1

(***************************************************************************)
(* Program constants.                                                      *)
(***************************************************************************)
\* Python's None: a decision entry that has not been fixed.
None == -1
\* The objective of an infeasible relaxation: below every real objective
\* (values are non-negative, so every real objective is >= 0).
NegInf == -1

One == Den

Solvers == {"VeryNaive", "Naive", "My"}
Strategies == {"FirstUndecided", "My"}

(***************************************************************************)
(* Data model.                                                             *)
(***************************************************************************)
Items == [value : 0..MaxValue, weight : 0..MaxWeight]

ItemSeqs == UNION {[1..n -> Items] : n \in 0..MaxItems}

Instances == [items : ItemSeqs, capacity : 0..MaxCapacity]

\* All ternary decision vectors of length n.
DecisionVectors(n) == [1..n -> {None, 0, 1}]

\* All relaxed selections of length n, fractional values included.
SelectionVectors(n) == [1..n -> 0..Den]

RECURSIVE SumSeq(_)
SumSeq(s) == IF s = <<>> THEN 0 ELSE s[1] + SumSeq(Tail(s))

\* RelaxedSolution(instance, selection, upper)
RelaxedSolution(inst, selection, upper) ==
    [selection |-> selection, objective |-> upper, feasible |-> TRUE]

\* RelaxedSolution.create_infeasible(instance)
create_infeasible(inst) ==
    [selection |-> [i \in 1..Len(inst.items) |-> 0],
     objective |-> NegInf, feasible |-> FALSE]

(***************************************************************************)
(* relaxation.py                                                           *)
(***************************************************************************)
\* Faulty variant of BuildSelection: an unset entry is left out (1.0 only
\* where fixed to 1).
BuildSelectionUnsetZero(dec) == [i \in 1..Len(dec) |-> IF dec[i] = 1 THEN One ELSE 0]

\* Faulty variant of BuildSelection: the test of the comprehension inverted.
BuildSelectionInverted(dec) == [i \in 1..Len(dec) |-> IF dec[i] = 0 THEN One ELSE 0]

\* [0.0 if x == 0 else 1.0 for x in decisions]
BuildSelection(dec) == [i \in 1..Len(dec) |-> IF dec[i] = 0 THEN 0 ELSE One]

\* Faulty variant of UpperOf: the weights are summed for the values.
UpperOfWeights(inst, selection) ==
    SumSeq([i \in 1..Len(selection) |-> inst.items[i].weight * selection[i]]) \div Den

\* sum(item.value * sel for item, sel in zip(instance.items, selection))
UpperOf(inst, selection) ==
    LET n == IF Len(inst.items) < Len(selection)
             THEN Len(inst.items) ELSE Len(selection)
    IN  SumSeq([i \in 1..n |-> inst.items[i].value * selection[i]]) \div Den

\* sum(item.weight for item, x in zip(instance.items, decisions) if x == 1)
UsedWeight(inst, dec) ==
    LET n == IF Len(inst.items) < Len(dec) THEN Len(inst.items) ELSE Len(dec)
    IN  SumSeq([i \in 1..n |-> IF dec[i] = 1 THEN inst.items[i].weight ELSE 0])

\* Faulty variant of VeryNaiveSolve: the fixed part is checked against the capacity.
VeryNaiveSolveChecked(inst, dec) ==
    IF UsedWeight(inst, dec) > inst.capacity
    THEN create_infeasible(inst)
    ELSE RelaxedSolution(inst, BuildSelection(dec), UpperOf(inst, BuildSelection(dec)))

VeryNaiveSolve(inst, dec) ==
    LET selection == BuildSelection(dec)
        upper == UpperOf(inst, selection)
    IN  RelaxedSolution(inst, selection, upper)

\* Faulty variant of NaiveSolve: a fixed part that fills the capacity exactly is
\* refused (>= for >).
NaiveSolveGe(inst, dec) ==
    IF UsedWeight(inst, dec) >= inst.capacity
    THEN create_infeasible(inst)
    ELSE RelaxedSolution(inst, BuildSelection(dec), UpperOf(inst, BuildSelection(dec)))

NaiveSolve(inst, dec) ==
    LET used == UsedWeight(inst, dec)
    IN  IF used > inst.capacity
        THEN create_infeasible(inst)
        ELSE LET selection == BuildSelection(dec)
                 upper == UpperOf(inst, selection)
             IN  RelaxedSolution(inst, selection, upper)

\* Faulty variant of MySolve: >= for >.
MySolveGe(inst, dec) ==
    IF UsedWeight(inst, dec) >= inst.capacity
    THEN create_infeasible(inst)
    ELSE RelaxedSolution(inst, BuildSelection(dec), UpperOf(inst, BuildSelection(dec)))

MySolve(inst, dec) ==
    LET used == UsedWeight(inst, dec)
    IN  IF used > inst.capacity
        THEN create_infeasible(inst)
        ELSE LET selection == BuildSelection(dec)
                 upper == UpperOf(inst, selection)
             IN  RelaxedSolution(inst, selection, upper)

\* solve of the configured solver
Solve(s, inst, dec) ==
    CASE s = "VeryNaive" -> VeryNaiveSolve(inst, dec)
      [] s = "Naive"     -> NaiveSolve(inst, dec)
      [] s = "My"        -> MySolve(inst, dec)

(***************************************************************************)
(* BranchingDecisions.split_on and BnBNode                                 *)
(***************************************************************************)
\* What a call returns: the children, or the exception it raised.
Returned(cs) == [raised |-> "", children |-> cs]
Raised(e) == [raised |-> e, children |-> <<>>]

\* decisions.split_on(i), i a 0-based index: two vectors equal to the input
\* except entry i, 0 in one and 1 in the other; a fixed entry is refused.
split_on(dec, i) ==
    IF i < 0 \/ i >= Len(dec) \/ dec[i + 1] # None
    THEN Raised("InvalidBranchIndex")
    ELSE Returned(<<[dec EXCEPT ![i + 1] = 0], [dec EXCEPT ![i + 1] = 1]>>)

BnBNode(dec, rel) == [branching_decisions |-> dec, relaxed_solution |-> rel]

(***************************************************************************)
(* branching_strategy.py                                                   *)
(***************************************************************************)
MinOf(S) == CHOOSE x \in S : \A y \in S : x <= y

\* Faulty variant of FirstUnfixed: the highest unset index (max for min).
FirstUnfixedHighest(dec) ==
    LET unfixed == {i \in 0..(Len(dec) - 1) : dec[i + 1] = None}
    IN  IF unfixed = {} THEN -1 ELSE CHOOSE x \in unfixed : \A y \in unfixed : y <= x

\* Faulty variant of FirstUnfixed: the index is counted from 1.
FirstUnfixedOneBased(dec) ==
    LET unfixed == {i \in 1..Len(dec) : dec[i] = None}
    IN  IF unfixed = {} THEN -1 ELSE MinOf(unfixed)

\* min((i for i, val in enumerate(decisions) if val is None), default=-1)
FirstUnfixed(dec) ==
    LET unfixed == {i \in 0..(Len(dec) - 1) : dec[i + 1] = None}
    IN  IF unfixed = {} THEN -1 ELSE MinOf(unfixed)

\* Faulty variant of FirstUndecidedBranchingStrategy: index 0 is taken for
\* the default (<= 0 for < 0).
FirstUndecidedOffByOne(inst, node) ==
    IF FirstUnfixed(node.branching_decisions) <= 0
    THEN Returned(<<>>)
    ELSE split_on(node.branching_decisions, FirstUnfixed(node.branching_decisions))

FirstUndecidedBranchingStrategy(inst, node) ==
    LET first_unfixed == FirstUnfixed(node.branching_decisions)
    IN  IF first_unfixed < 0
        THEN Returned(<<>>)
        ELSE split_on(node.branching_decisions, first_unfixed)

\* The indices i the comprehension keeps: x2 is None and 0.0 < x1 < 1.0,
\* over zip(relaxed.selection, decisions, relaxed.instance.items).
CandidateIndices(inst, node) ==
    LET sel == node.relaxed_solution.selection
        dec == node.branching_decisions
        n == MinOf({Len(sel), Len(dec), Len(inst.items)})
    IN  {i \in 0..(n - 1) : dec[i + 1] = None /\ 0 < sel[i + 1] /\ sel[i + 1] < One}

\* (r1, i1) < (r2, i2) for the tuples (item.value / item.weight, i), the
\* weights being positive: ratios compared by cross-multiplication (exact
\* for the small integers of the model, as the float quotients are).
TupleLess(inst, i1, i2) ==
    LET a == inst.items[i1 + 1]
        b == inst.items[i2 + 1]
    IN  \/ a.value * b.weight < b.value * a.weight
        \/ a.value * b.weight = b.value * a.weight /\ i1 < i2

\* Faulty variant of MyBranchingStrategy: with no candidate the node's own
\* decisions are returned as its only child.
MyBranchingReturnsSelf(inst, node) ==
    IF CandidateIndices(inst, node) = {}
    THEN Returned(<<node.branching_decisions>>)
    ELSE split_on(node.branching_decisions, MinOf(CandidateIndices(inst, node)))

MyBranchingStrategy(inst, node) ==
    LET candidates == CandidateIndices(inst, node)
    IN  IF \E i \in candidates : inst.items[i + 1].weight = 0
        THEN Raised("ZeroDivisionError")
        ELSE IF candidates = {}
        THEN Returned(<<>>)
        ELSE LET best_index == CHOOSE i \in candidates :
                                  \A j \in candidates : j = i \/ TupleLess(inst, j, i)
             IN  split_on(node.branching_decisions, best_index)

\* make_branching_decisions of the configured strategy
make_branching_decisions(st, inst, node) ==
    CASE st = "FirstUndecided" -> FirstUndecidedBranchingStrategy(inst, node)
      [] st = "My"             -> MyBranchingStrategy(inst, node)

(***************************************************************************)
(* Values of the variables a specification does not use.                   *)
(***************************************************************************)
NoRelaxed == [selection |-> <<>>, objective |-> NegInf, feasible |-> FALSE]
NoChildren == Returned(<<>>)

\* The incumbent's selection while none is recorded.
NoSelection == <<None>>

DriverIdle ==
    /\ status = "NONE" /\ frontier = <<>> /\ best_value = NegInf
    /\ best_selection = NoSelection /\ budget = None /\ order = ""
    /\ leaves = <<>>

DriverUnchanged == UNCHANGED <<status, frontier, best_value, best_selection, budget, order, leaves>>

(***************************************************************************)
(* SolveSpec: one call of solve(instance, decisions) on every instance and *)
(* every ternary decision vector of its length.                            *)
(***************************************************************************)
InitSolve ==
    /\ instance \in Instances
    /\ decisions \in DecisionVectors(Len(instance.items))
    /\ solver = "" /\ strategy = ""
    /\ relaxed = NoRelaxed /\ children = NoChildren
    /\ pc = "call"
    /\ DriverIdle

\* What every call of solve leaves alone.
SolveReturn ==
    /\ pc' = "done"
    /\ UNCHANGED <<instance, strategy, decisions, children>>
    /\ DriverUnchanged

CallVeryNaive ==
    /\ pc = "call"
    /\ solver' = "VeryNaive"
    /\ relaxed' = VeryNaiveSolve(instance, decisions)
    /\ SolveReturn

CallNaive ==
    /\ pc = "call"
    /\ solver' = "Naive"
    /\ relaxed' = NaiveSolve(instance, decisions)
    /\ SolveReturn

CallMy ==
    /\ pc = "call"
    /\ solver' = "My"
    /\ relaxed' = MySolve(instance, decisions)
    /\ SolveReturn

NextSolve == CallVeryNaive \/ CallNaive \/ CallMy

SolveSpec == InitSolve /\ [][NextSolve]_vars

(***************************************************************************)
(* BranchSpec: one call of make_branching_decisions(node) on every node:   *)
(* every decision vector with every relaxed selection that keeps the fixed *)
(* entries (a fractional value is possible at an unset entry).             *)
(***************************************************************************)
\* Selections a relaxation may attach to dec: fixed entries kept.
ConformingSelections(dec) ==
    {sel \in SelectionVectors(Len(dec)) :
        \A i \in 1..Len(dec) : /\ dec[i] = 0 => sel[i] = 0
                               /\ dec[i] = 1 => sel[i] = One}

\* The objective of a selection, rounded up to an integer.
ObjectiveOf(inst, sel) ==
    (SumSeq([i \in 1..Len(sel) |-> inst.items[i].value * sel[i]]) + Den - 1) \div Den

\* No strategy reads the capacity: it is held at MaxCapacity here.
InitBranch ==
    /\ instance \in {inst \in Instances : inst.capacity = MaxCapacity}
    /\ decisions \in DecisionVectors(Len(instance.items))
    /\ \E sel \in ConformingSelections(decisions) :
          relaxed = RelaxedSolution(instance, sel, ObjectiveOf(instance, sel))
    /\ solver = "" /\ strategy = ""
    /\ children = NoChildren
    /\ pc = "call"
    /\ DriverIdle

\* What every call of make_branching_decisions leaves alone.
BranchReturn ==
    /\ pc' = "done"
    /\ UNCHANGED <<instance, solver, decisions, relaxed>>
    /\ DriverUnchanged

CallFirstUndecided ==
    /\ pc = "call"
    /\ strategy' = "FirstUndecided"
    /\ children' = FirstUndecidedBranchingStrategy(instance, BnBNode(decisions, relaxed))
    /\ BranchReturn

CallMyBranching ==
    /\ pc = "call"
    /\ strategy' = "My"
    /\ children' = MyBranchingStrategy(instance, BnBNode(decisions, relaxed))
    /\ BranchReturn

NextBranch == CallFirstUndecided \/ CallMyBranching

BranchSpec == InitBranch /\ [][NextBranch]_vars

(***************************************************************************)
(* The search driver: READY -> RUNNING -> OPTIMAL | FEASIBLE_TIMEOUT |     *)
(* INFEASIBLE.  The frontier order is a configuration point of the driver: *)
(* depth-first (a stack) or best-bound-first, fixed for the run.           *)
(***************************************************************************)
RootDecisions(inst) == [i \in 1..Len(inst.items) |-> None]

\* The node the driver builds for a decision vector: bounded by the solver.
MakeNode(s, inst, dec) == BnBNode(dec, Solve(s, inst, dec))

\* Total weight of a relaxed selection (times Den).
SelectionWeight(inst, sel) ==
    SumSeq([i \in 1..Len(sel) |-> inst.items[i].weight * sel[i]])

\* The bound is itself integral and feasible: selection 0/1-valued and
\* within capacity.
IsIntegralFeasible(inst, rel) ==
    /\ rel.feasible
    /\ \A i \in 1..Len(rel.selection) : rel.selection[i] \in {0, One}
    /\ SelectionWeight(inst, rel.selection) <= inst.capacity * Den

\* The 0/1 vector of an integral selection.
AsBinary(sel) == [i \in 1..Len(sel) |-> IF sel[i] = One THEN 1 ELSE 0]

RemoveAt(seq, k) == [i \in 1..(Len(seq) - 1) |-> IF i < k THEN seq[i] ELSE seq[i + 1]]

RECURSIVE MakeNodes(_, _, _)
MakeNodes(s, inst, decs) ==
    IF decs = <<>> THEN <<>>
    ELSE <<MakeNode(s, inst, decs[1])>> \o MakeNodes(s, inst, Tail(decs))

Orders == {"depth_first", "best_first"}

\* The index of the node the ordering policy pops: the last one pushed, or
\* the first one among those of the highest bound.
PopIndex(ord, fr) ==
    IF ord = "depth_first"
    THEN Len(fr)
    ELSE MinOf({k \in 1..Len(fr) :
                  \A j \in 1..Len(fr) :
                     fr[j].relaxed_solution.objective <= fr[k].relaxed_solution.objective})

\* One node of the budget is spent per loop iteration.
Spend(b) == IF b = None THEN None ELSE b - 1

PureIdle ==
    /\ decisions = <<>> /\ relaxed = NoRelaxed /\ children = NoChildren
    /\ leaves = <<>>

PureUnchanged == UNCHANGED <<decisions, relaxed, children, pc, leaves>>

ConfigUnchanged == UNCHANGED <<instance, solver, strategy, order>>

InitDriver ==
    /\ instance \in Instances
    /\ solver \in Solvers
    /\ strategy \in Strategies
    /\ order \in Orders
    /\ budget \in {None} \cup 0..MaxBudget
    /\ status = "READY"
    /\ frontier = <<>>
    /\ best_value = NegInf
    /\ best_selection = NoSelection
    /\ pc = "driver"
    /\ PureIdle

\* READY -> RUNNING: seed the frontier with the bounded root node.
Start ==
    /\ status = "READY"
    /\ status' = "RUNNING"
    /\ frontier' = <<MakeNode(solver, instance, RootDecisions(instance))>>
    /\ UNCHANGED <<best_value, best_selection, budget>>
    /\ ConfigUnchanged /\ PureUnchanged

CanStep == status = "RUNNING" /\ frontier # <<>> /\ budget # 0

\* The popped node's bound cannot exceed the incumbent: discarded.
Prune ==
    /\ CanStep
    /\ LET k == PopIndex(order, frontier) IN
          /\ frontier[k].relaxed_solution.objective <= best_value
          /\ frontier' = RemoveAt(frontier, k)
    /\ budget' = Spend(budget)
    /\ UNCHANGED <<status, best_value, best_selection>>
    /\ ConfigUnchanged /\ PureUnchanged

\* The popped node's bound is integral and feasible: new incumbent, no
\* expansion.
UpdateIncumbent ==
    /\ CanStep
    /\ LET k == PopIndex(order, frontier) IN
          LET rel == frontier[k].relaxed_solution
          IN  /\ rel.objective > best_value
              /\ IsIntegralFeasible(instance, rel)
              /\ best_value' = UpperOf(instance, rel.selection)
              /\ best_selection' = AsBinary(rel.selection)
              /\ frontier' = RemoveAt(frontier, k)
    /\ budget' = Spend(budget)
    /\ UNCHANGED status
    /\ ConfigUnchanged /\ PureUnchanged

\* Otherwise the strategy is asked for children, each is bounded and pushed;
\* an exception of the strategy aborts the solve.
Expand ==
    /\ CanStep
    /\ LET k == PopIndex(order, frontier) IN
          LET node == frontier[k]
              rel == node.relaxed_solution
              res == make_branching_decisions(strategy, instance, node)
          IN  /\ rel.objective > best_value
              /\ ~IsIntegralFeasible(instance, rel)
              /\ IF res.raised # ""
                 THEN /\ status' = "ABORTED"
                      /\ frontier' = RemoveAt(frontier, k)
                 ELSE /\ status' = status
                      /\ frontier' = RemoveAt(frontier, k)
                                       \o MakeNodes(solver, instance, res.children)
    /\ budget' = Spend(budget)
    /\ UNCHANGED <<best_value, best_selection>>
    /\ ConfigUnchanged /\ PureUnchanged

\* RUNNING -> OPTIMAL when the frontier empties; with no incumbent ever
\* recorded the result is INFEASIBLE.
Finish ==
    /\ status = "RUNNING"
    /\ frontier = <<>>
    /\ status' = IF best_value = NegInf THEN "INFEASIBLE" ELSE "OPTIMAL"
    /\ UNCHANGED <<frontier, best_value, best_selection, budget>>
    /\ ConfigUnchanged /\ PureUnchanged

\* RUNNING -> FEASIBLE_TIMEOUT when the budget is exhausted first.
Timeout ==
    /\ status = "RUNNING"
    /\ frontier # <<>>
    /\ budget = 0
    /\ status' = "FEASIBLE_TIMEOUT"
    /\ UNCHANGED <<frontier, best_value, best_selection, budget>>
    /\ ConfigUnchanged /\ PureUnchanged

Next == Start \/ Prune \/ UpdateIncumbent \/ Expand \/ Finish \/ Timeout

Spec == InitDriver /\ [][Next]_vars

\* The loop is synchronous: a step that can be taken is taken.
FairSpec == Spec /\ WF_vars(Next)

(***************************************************************************)
(* TreeSpec: the whole tree under the all-unset root, every node expanded  *)
(* with FirstUndecidedBranchingStrategy (no bounding, no pruning).  The    *)
(* pending nodes are a stack; a node with no children is recorded in       *)
(* leaves.  decisions and children hold the last expansion.                *)
(***************************************************************************)
InitTree ==
    /\ instance \in Instances
    /\ solver \in Solvers
    /\ strategy = "FirstUndecided"
    /\ frontier = <<MakeNode(solver, instance, RootDecisions(instance))>>
    /\ leaves = <<>>
    /\ decisions = <<>> /\ relaxed = NoRelaxed /\ children = NoChildren
    /\ pc = "tree"
    /\ status = "NONE" /\ best_value = NegInf /\ best_selection = NoSelection
    /\ budget = None /\ order = "depth_first"

TreeUnchanged ==
    UNCHANGED <<instance, solver, strategy, status, best_value, best_selection,
                budget, order>>

\* The popped node has children: they are bounded and pushed.
TreeExpand ==
    /\ pc \in {"tree", "expanded"}
    /\ frontier # <<>>
    /\ LET k == Len(frontier)
           node == frontier[k]
           res == FirstUndecidedBranchingStrategy(instance, node)
       IN  /\ res.raised = ""
           /\ res.children # <<>>
           /\ decisions' = node.branching_decisions
           /\ relaxed' = node.relaxed_solution
           /\ children' = res
           /\ frontier' = RemoveAt(frontier, k)
                            \o MakeNodes(solver, instance, res.children)
    /\ pc' = "expanded"
    /\ UNCHANGED leaves
    /\ TreeUnchanged

\* The popped node has no children: it is a leaf of the tree.
TreeLeaf ==
    /\ pc \in {"tree", "expanded"}
    /\ frontier # <<>>
    /\ LET k == Len(frontier)
           node == frontier[k]
           res == FirstUndecidedBranchingStrategy(instance, node)
       IN  /\ res.children = <<>>
           /\ leaves' = Append(leaves, node.branching_decisions)
           /\ frontier' = RemoveAt(frontier, k)
           /\ pc' = IF res.raised = "" THEN pc ELSE "raised"
    /\ UNCHANGED <<decisions, relaxed, children>>
    /\ TreeUnchanged

NextTree == TreeExpand \/ TreeLeaf

TreeSpec == InitTree /\ [][NextTree]_vars

(***************************************************************************)
(* Reference notions the properties are stated with.                       *)
(***************************************************************************)
BinaryVectors(n) == [1..n -> {0, 1}]

\* The 0/1 completions of a decision vector: fixed entries kept.
Completions(dec) ==
    {c \in BinaryVectors(Len(dec)) : \A i \in 1..Len(dec) : dec[i] # None => c[i] = dec[i]}

TotalValue(inst, c) == SumSeq([i \in 1..Len(c) |-> inst.items[i].value * c[i]])

TotalWeight(inst, c) == SumSeq([i \in 1..Len(c) |-> inst.items[i].weight * c[i]])

Fits(inst, c) == TotalWeight(inst, c) <= inst.capacity

MaxOf(S) == CHOOSE x \in S : \A y \in S : y <= x

\* The best total value of a 0/1 subset within capacity (brute force).
BruteForceOptimum(inst) ==
    MaxOf({TotalValue(inst, c) : c \in {b \in BinaryVectors(Len(inst.items)) : Fits(inst, b)}})

\* Total weight of the entries fixed to 1.
FixedWeight(inst, dec) ==
    SumSeq([i \in 1..Len(dec) |-> IF dec[i] = 1 THEN inst.items[i].weight ELSE 0])

HasUnset(dec) == \E i \in 1..Len(dec) : dec[i] = None

(***************************************************************************)
(* Properties of the relaxation solvers (SolveSpec).                       *)
(***************************************************************************)
\* C2: bound validity.  The objective returned by each solver is >= the
\* total value of every 0/1 completion of the decisions that fits the
\* capacity, and when the result is infeasible no completion fits.
C2_BoundValidity ==
    pc = "done" =>
        /\ \A c \in Completions(decisions) :
              Fits(instance, c) => relaxed.objective >= TotalValue(instance, c)
        /\ ~relaxed.feasible => ~\E c \in Completions(decisions) : Fits(instance, c)

\* The capacity-checked solver returned a tight, positive bound for a node
\* with an unset entry.
C2_Witness ==
    /\ pc = "done" /\ solver = "Naive" /\ relaxed.feasible
    /\ HasUnset(decisions)
    /\ relaxed.objective > 0
    /\ \E c \in Completions(decisions) :
          Fits(instance, c) /\ TotalValue(instance, c) = relaxed.objective
    /\ \E c \in Completions(decisions) : ~Fits(instance, c)

\* C5: a feasible relaxed solution has the length of the decisions and
\* keeps every fixed entry: 0 where fixed to 0, 1 where fixed to 1.
C5_FixedEntriesKept ==
    (pc = "done" /\ relaxed.feasible) =>
        /\ Len(relaxed.selection) = Len(decisions)
        /\ \A i \in 1..Len(decisions) :
              /\ decisions[i] = 0 => relaxed.selection[i] = 0
              /\ decisions[i] = 1 => relaxed.selection[i] = One

C5_Witness ==
    /\ pc = "done" /\ solver = "My" /\ relaxed.feasible
    /\ \E i, j \in 1..Len(decisions) : decisions[i] = 0 /\ decisions[j] = 1

\* C6: NaiveRelaxationSolver and MyRelaxationSolver return the infeasible
\* solution exactly when the weight fixed to 1 is strictly greater than the
\* capacity; otherwise the selection and objective of VeryNaive.
C6_CapacityCheck ==
    (pc = "done" /\ solver \in {"Naive", "My"}) =>
        /\ ~relaxed.feasible <=> FixedWeight(instance, decisions) > instance.capacity
        /\ ~relaxed.feasible => relaxed.objective = NegInf
        /\ relaxed.feasible =>
              /\ relaxed.selection = VeryNaiveSolve(instance, decisions).selection
              /\ relaxed.objective = VeryNaiveSolve(instance, decisions).objective

\* The fixed part fills the capacity exactly and the result is feasible.
C6_Witness ==
    /\ pc = "done" /\ solver = "Naive" /\ relaxed.feasible
    /\ instance.capacity > 0
    /\ FixedWeight(instance, decisions) = instance.capacity
    /\ HasUnset(decisions)

\* C7: VeryNaiveRelaxationSolver ignores the capacity: the selection is 0 at
\* every entry fixed to 0 and 1 at every other entry, the objective is the
\* sum of the values of the selected items, and the result is never
\* infeasible.
C7_VeryNaive ==
    (pc = "done" /\ solver = "VeryNaive") =>
        /\ relaxed.feasible
        /\ relaxed.objective # NegInf
        /\ Len(relaxed.selection) = Len(decisions)
        /\ \A i \in 1..Len(decisions) :
              relaxed.selection[i] = IF decisions[i] = 0 THEN 0 ELSE One
        /\ relaxed.objective =
              SumSeq([i \in 1..Len(decisions) |->
                        IF relaxed.selection[i] = One
                        THEN instance.items[i].value ELSE 0])

\* The weight fixed to 1 already exceeds the capacity.
C7_Witness ==
    /\ pc = "done" /\ solver = "VeryNaive"
    /\ FixedWeight(instance, decisions) > instance.capacity
    /\ HasUnset(decisions)
    /\ relaxed.objective > 0

(***************************************************************************)
(* Properties of the branching strategies (BranchSpec, TreeSpec).          *)
(***************************************************************************)
\* C3: a strategy returns an empty sequence of children exactly when no
\* entry of the node's decisions is unset.  Stated for the calls that
\* return (a call that raises returns no sequence at all).
C3_EmptyIffLeaf ==
    (pc = "done" /\ children.raised = "") =>
        (children.children = <<>> <=> ~HasUnset(decisions))

\* C4: expanding the all-unset root with FirstUndecidedBranchingStrategy
\* until no node is pending, the nodes without children are exactly the 2^n
\* fully fixed 0/1 vectors, each once, and every child differs from its
\* parent only by fixing one previously unset entry.
C4_LeavesAreAllAssignments ==
    /\ pc # "raised"
    /\ \A i, j \in 1..Len(leaves) : i # j => leaves[i] # leaves[j]
    /\ frontier = <<>> =>
          /\ Len(leaves) = 2 ^ Len(instance.items)
          /\ {leaves[i] : i \in 1..Len(leaves)} = BinaryVectors(Len(instance.items))
    /\ pc = "expanded" =>
          \A k \in 1..Len(children.children) :
             LET child == children.children[k]
             IN  /\ Len(child) = Len(decisions)
                 /\ \E i \in 1..Len(decisions) :
                       /\ decisions[i] = None
                       /\ child[i] \in {0, 1}
                       /\ \A j \in 1..Len(decisions) : j # i => child[j] = decisions[j]

\* The tree of an instance of MaxItems items has been enumerated.
C4_Witness ==
    /\ frontier = <<>>
    /\ pc = "expanded"
    /\ Len(instance.items) = MaxItems
    /\ Len(leaves) >= 2 * MaxItems

(***************************************************************************)
(* Properties of the search driver (Spec, FairSpec).                       *)
(***************************************************************************)
Terminal == status \in {"OPTIMAL", "INFEASIBLE", "FEASIBLE_TIMEOUT", "ABORTED"}

AllZero(inst) == [i \in 1..Len(inst.items) |-> 0]

\* C1: a search run without a budget that ends in status OPTIMAL reports
\* as best_value the maximum total value over all 0/1 subsets of the items
\* whose total weight is <= capacity.
C1_OptimalIsBruteForce ==
    (status = "OPTIMAL" /\ budget = None) =>
        best_value = BruteForceOptimum(instance)

\* A run with FirstUndecidedBranchingStrategy ended OPTIMAL on an instance
\* whose items do not all fit, with a positive optimum.
C1_Witness ==
    /\ status = "OPTIMAL" /\ budget = None
    /\ strategy = "FirstUndecided"
    /\ Len(instance.items) = MaxItems
    /\ ~Fits(instance, [i \in 1..Len(instance.items) |-> 1])
    /\ best_value > 0
    /\ Fits(instance, best_selection)
    /\ TotalValue(instance, best_selection) = best_value

C9_NeverInfeasible ==
    budget = None => status # "INFEASIBLE"

\* C10: termination.  The search run without a budget eventually empties
\* its frontier and leaves RUNNING.
C10_Termination ==
    (status = "READY" /\ budget = None)
        ~> (status \in {"OPTIMAL", "INFEASIBLE"} /\ frontier = <<>>)

\* A best-first run over MaxItems items that expanded down to a leaf has
\* ended.
C10_Witness ==
    /\ status \in {"OPTIMAL", "INFEASIBLE"} /\ frontier = <<>>
    /\ budget = None
    /\ order = "best_first"
    /\ Len(instance.items) = MaxItems
    /\ best_selection # NoSelection
    /\ \E i \in 1..Len(instance.items) : best_selection[i] = 0

(***************************************************************************)
(* Behaviour of the branching strategies (BranchSpec).                     *)
(***************************************************************************)
\* The lowest position (counted from 1) of an unset entry.
LowestUnset(dec) ==
    CHOOSE i \in 1..Len(dec) : dec[i] = None /\ \A j \in 1..(i - 1) : dec[j] # None

\* C11: for a node with an unset entry FirstUndecidedBranchingStrategy
\* returns exactly the two children of split_on(i), i the lowest unset
\* index: one with entry i = 0, one with entry i = 1, every other entry
\* unchanged.  The expected children do not mention the relaxed solution,
\* which takes every conforming value over the states of BranchSpec.
C11_FirstUndecidedLowestUnset ==
    (pc = "done" /\ strategy = "FirstUndecided" /\ HasUnset(decisions)) =>
        LET i == LowestUnset(decisions)
        IN  /\ children.raised = ""
            /\ Len(children.children) = 2
            /\ {children.children[k] : k \in 1..2}
                  = {[decisions EXCEPT ![i] = 0], [decisions EXCEPT ![i] = 1]}

\* Two entries are unset and the relaxed value of the second is fractional:
\* the first is branched on all the same.
C11_Witness ==
    /\ pc = "done" /\ strategy = "FirstUndecided"
    /\ Len(decisions) >= 2
    /\ decisions[1] = None
    /\ decisions[2] = None
    /\ relaxed.selection[2] \notin {0, One}
    /\ Len(children.children) = 2

\* The positions (counted from 1) MyBranchingStrategy may branch on: unset,
\* with a relaxed value strictly between 0 and 1.
FractionalUnset ==
    {i \in 1..Len(decisions) :
        /\ decisions[i] = None
        /\ 0 < relaxed.selection[i] /\ relaxed.selection[i] < One}

\* Candidate i is preferred to candidate j: a higher value/weight ratio, or
\* the same ratio and a higher index.
Preferred(i, j) ==
    LET a == instance.items[i]
        b == instance.items[j]
    IN  \/ a.value * b.weight > b.value * a.weight
        \/ a.value * b.weight = b.value * a.weight /\ i > j

\* What C12 expects of a call of MyBranchingStrategy.
MyBranchingAsSpecified ==
    /\ FractionalUnset = {} => children = Returned(<<>>)
    /\ FractionalUnset # {} =>
          /\ children.raised = ""
          /\ \E i \in FractionalUnset :
                /\ \A j \in FractionalUnset \ {i} : Preferred(i, j)
                /\ children.children =
                      <<[decisions EXCEPT ![i] = 0], [decisions EXCEPT ![i] = 1]>>

\* C12: MyBranchingStrategy considers exactly the unset indices whose
\* relaxed value lies strictly between 0 and 1; with none it returns no
\* children, otherwise split_on(i) for the candidate of the highest
\* value/weight ratio (the highest index among equal ratios).
C12_MyBranchingBestRatio ==
    (pc = "done" /\ strategy = "My") => MyBranchingAsSpecified

\* C12 on the nodes none of whose candidates has weight 0: what the code
\* does satisfy.
C12_PositiveWeightCandidates ==
    (pc = "done" /\ strategy = "My"
       /\ \A i \in FractionalUnset : instance.items[i].weight > 0)
        => MyBranchingAsSpecified

\* C14: MyBranchingStrategy.make_branching_decisions completes without
\* raising an error on every node of a well-formed instance (weight 0
\* allowed): neither the ratio nor split_on fails.
C14_MyBranchingNeverRaises ==
    (pc = "done" /\ strategy = "My") => children.raised = ""

(***************************************************************************)
(* Behaviour of the relaxation solvers along a path (SolveSpec).           *)
(***************************************************************************)
\* The decision vectors that fix more entries of dec (dec included).
Extensions(dec) ==
    {e \in DecisionVectors(Len(dec)) :
        \A i \in 1..Len(dec) : dec[i] # None => e[i] = dec[i]}

\* C13: bounds only shrink along a path.  Fixing an unset entry to 0 or to
\* 1 never raises the objective of solve (NegInf for an infeasible result),
\* and once solve is infeasible on a vector it is infeasible on every
\* vector that fixes more of its entries.
C13_BoundsOnlyShrink ==
    pc = "done" =>
        /\ \A i \in 1..Len(decisions) : \A b \in {0, 1} :
              decisions[i] = None =>
                 Solve(solver, instance, [decisions EXCEPT ![i] = b]).objective
                    <= relaxed.objective
        /\ ~relaxed.feasible =>
              \A e \in Extensions(decisions) :
                 /\ ~Solve(solver, instance, e).feasible
                 /\ Solve(solver, instance, e).objective = NegInf

\* Fixing the unset entry to 0 lowers the bound and fixing it to 1 makes
\* the node infeasible.
C13_Witness ==
    /\ pc = "done" /\ solver = "Naive" /\ relaxed.feasible
    /\ \E i \in 1..Len(decisions) :
          /\ decisions[i] = None
          /\ LET r0 == Solve(solver, instance, [decisions EXCEPT ![i] = 0])
                 r1 == Solve(solver, instance, [decisions EXCEPT ![i] = 1])
             IN  /\ r0.feasible /\ r0.objective < relaxed.objective
                 /\ ~r1.feasible
                 /\ \A e \in Extensions([decisions EXCEPT ![i] = 1]) :
                       ~Solve(solver, instance, e).feasible

====
